---- MODULE Spec2Model ----
(***************************************************************************)
(* State-machine model of app.py, the WhatsApp voice-transcription bot:    *)
(* the GET /webhook verification handshake and the POST /webhook pipeline  *)
(* (media lookup, download, transcode, transcribe, assistant post-process, *)
(* reply).                                                                 *)
(*                                                                         *)
(* Strings are sequences of symbols.  A symbol is one character where the  *)
(* code looks at characters (the challenge handed to int()), and a whole   *)
(* word where it only compares or concatenates ("subscribe", ".ogg").      *)
(* Python's None is the value None below; a JSON object is a record whose  *)
(* fields hold Absent or Present(v).  The scratch directory is one fixed   *)
(* directory, and str(e) of an HTTPException is "<status_code>: <detail>". *)
(***************************************************************************)
EXTENDS Integers, Sequences, FiniteSets, TLC

VARIABLES
    VERIFY_TOKEN,     \* os.getenv("VERIFY_TOKEN"), read once at import
    query_params,     \* GET /webhook: what query_params.get() gives for the three keys
    verify_response,  \* GET /webhook: the answer of verify_webhook, Pending before it ran
    request,          \* POST /webhook, per request: the payload received
    task,             \* per request: position in webhook_handler and its local variables
    resp,             \* per request: the response webhook_handler returned
    calls,            \* per request: the outbound endpoints called, in order of first use
    posted,           \* per request: the (to, message) pairs handed to send_whatsapp_message
    running,          \* the task holding the event loop between two awaits, or "none"
    files,            \* the scratch directory: [path, content, owner], owner the
                      \* request whose stage created the file
    foreign,          \* per request: the paths it touched while another request's
                      \* file was there
    names,            \* every name NamedTemporaryFile has handed out, in order
    threads           \* the assistant service: thread id -> [messages, run]

verifyVars == <<VERIFY_TOKEN, query_params, verify_response>>
hookVars == <<request, task, resp, calls, posted, running, files, foreign,
              names, threads>>
vars == <<verifyVars, hookVars>>

-----------------------------------------------------------------------------
(* Values *)

None == <<"<None>">>

\* Python truthiness of an Optional[str]: None and "" are falsy.
Truthy(x) == x # None /\ x # <<>>

MaxChallengeLen == 3

Digits == {"0", "1", "7"}
Chars == Digits \cup {"-", "+", "_", " ", "x"}

DigitValue(c) == CASE c = "0" -> 0 [] c = "1" -> 1 [] c = "7" -> 7

RECURSIVE StrUpTo(_)
StrUpTo(n) ==
    IF n = 0 THEN {<<>>}
    ELSE StrUpTo(n - 1) \cup {Append(s, c) : s \in {t \in StrUpTo(n - 1) : Len(t) = n - 1}, c \in Chars}

-----------------------------------------------------------------------------
(* int(challenge): Python's int() of a str or None *)

RECURSIVE LStrip(_)
LStrip(s) == IF s # <<>> /\ Head(s) = " " THEN LStrip(Tail(s)) ELSE s

RECURSIVE RStrip(_)
RStrip(s) ==
    IF s # <<>> /\ s[Len(s)] = " " THEN RStrip(SubSeq(s, 1, Len(s) - 1)) ELSE s

Strip(s) == RStrip(LStrip(s))

\* Digits with single underscores between them: no leading, trailing or
\* doubled underscore, at least one digit.
IsDigitGroups(s) ==
    /\ s # <<>>
    /\ \A i \in 1..Len(s) : s[i] \in Digits \cup {"_"}
    /\ s[1] # "_"
    /\ s[Len(s)] # "_"
    /\ \A i \in 1..(Len(s) - 1) : ~(s[i] = "_" /\ s[i + 1] = "_")

RECURSIVE DigitsValue(_, _)
DigitsValue(s, acc) ==
    IF s = <<>> THEN acc
    ELSE IF Head(s) = "_" THEN DigitsValue(Tail(s), acc)
    ELSE DigitsValue(Tail(s), 10 * acc + DigitValue(Head(s)))

\* int() dropping the sign
ParseInt_Unsigned(x) ==
    IF x = None THEN [ok |-> FALSE, value |-> 0, exc |-> "TypeError"]
    ELSE
        LET t == Strip(x)
            signed == t # <<>> /\ Head(t) \in {"-", "+"}
            body == IF signed THEN Tail(t) ELSE t
        IN  IF IsDigitGroups(body)
            THEN [ok |-> TRUE, value |-> DigitsValue(body, 0), exc |-> ""]
            ELSE [ok |-> FALSE, value |-> 0, exc |-> "ValueError"]

\* [ok, value, exc]: the integer, or the exception int() raises.
ParseInt(x) ==
    IF x = None THEN [ok |-> FALSE, value |-> 0, exc |-> "TypeError"]
    ELSE
        LET t == Strip(x)
            signed == t # <<>> /\ Head(t) \in {"-", "+"}
            body == IF signed THEN Tail(t) ELSE t
        IN  IF IsDigitGroups(body)
            THEN [ok |-> TRUE,
                  value |-> IF signed /\ Head(t) = "-"
                            THEN -DigitsValue(body, 0) ELSE DigitsValue(body, 0),
                  exc |-> ""]
            ELSE [ok |-> FALSE, value |-> 0, exc |-> "ValueError"]

-----------------------------------------------------------------------------
(* GET /webhook *)

Returned(n) == [kind |-> "return", status |-> 200, value |-> n, detail |-> <<>>]
HTTPException(code, text) ==
    [kind |-> "HTTPException", status |-> code, value |-> 0, detail |-> text]
\* An exception no handler catches: the framework answers 500.
Unhandled(exc) == [kind |-> exc, status |-> 500, value |-> 0, detail |-> <<>>]

\* verify_webhook comparing the mode only
verify_webhook_TokenUnchecked(params, secret) ==
    LET mode == params.mode
        token == params.token
        challenge == params.challenge
    IN  IF Truthy(mode) /\ Truthy(token)
        THEN IF mode = <<"subscribe">>
             THEN IF ParseInt(challenge).ok
                  THEN Returned(ParseInt(challenge).value)
                  ELSE Unhandled(ParseInt(challenge).exc)
             ELSE HTTPException(403, <<"Invalid verify token">>)
        ELSE HTTPException(400, <<"Invalid request">>)

verify_webhook(params, secret) ==
    LET mode == params.mode
        token == params.token
        challenge == params.challenge
    IN  IF Truthy(mode) /\ Truthy(token)
        THEN IF mode = <<"subscribe">> /\ token = secret
             THEN IF ParseInt(challenge).ok
                  THEN Returned(ParseInt(challenge).value)
                  ELSE Unhandled(ParseInt(challenge).exc)
             ELSE HTTPException(403, <<"Invalid verify token">>)
        ELSE HTTPException(400, <<"Invalid request">>)

Modes == {None, <<>>, <<"subscribe">>, <<"unsubscribe">>}
Tokens == {None, <<>>, <<"s3cret">>, <<"guess">>}
Secrets == {None, <<>>, <<"s3cret">>}
Challenges == {None} \cup StrUpTo(MaxChallengeLen)

Pending == [kind |-> "pending", status |-> 0, value |-> 0, detail |-> <<>>]

VerifyWebhook ==
    /\ verify_response = Pending
    /\ verify_response' = verify_webhook(query_params, VERIFY_TOKEN)
    /\ UNCHANGED <<VERIFY_TOKEN, query_params, hookVars>>

-----------------------------------------------------------------------------
(* POST /webhook: values *)

Requests == {"r1", "r2"}

\* A key of a JSON object holds Absent or Present(v).
Absent == <<>>
Present(v) == <<v>>

\* dict.get(key, default)
Get(d, key, default) == IF Len(d[key]) = 0 THEN default ELSE d[key][1]

EmptyEntry == [changes |-> Absent]
EmptyChange == [value |-> Absent]
EmptyValue == [messages |-> Absent]

FromNumber(r) == <<"wa-id:", r>>
MediaId(r) == <<"media:", r>>

AudioMessage(r) ==
    [type |-> Present(<<"audio">>), from |-> Present(FromNumber(r)),
     audio |-> Present([id |-> Present(MediaId(r))])]
TextMessage(r) ==
    [type |-> Present(<<"text">>), from |-> Present(FromNumber(r)), audio |-> Absent]
UntypedMessage(r) ==
    [type |-> Absent, from |-> Present(FromNumber(r)), audio |-> Absent]

Envelope(messages) ==
    [entry |-> Present(<<[changes |-> Present(<<[value |-> Present([messages |-> messages])]>>)]>>)]

Json(body) == [valid |-> TRUE, json |-> body]

\* The notification bodies a request may carry.
Payloads(r) ==
    << [valid |-> FALSE, json |-> [entry |-> Absent]],                    \* not JSON
       Json([entry |-> Absent]),                                          \* {}
       Json([entry |-> Present(<<>>)]),                                   \* {"entry": []}
       Json([entry |-> Present(<<EmptyEntry>>)]),                         \* {"entry": [{}]}
       Json([entry |-> Present(<<[changes |-> Present(<<>>)]>>)]),        \* "changes": []
       Json([entry |-> Present(<<[changes |-> Present(<<EmptyChange>>)]>>)]),
       Json([entry |-> Present(<<[changes |-> Present(<<[value |-> Present(EmptyValue)]>>)]>>)]),
       Json(Envelope(Absent)),
       Json(Envelope(Present(<<>>))),                                     \* "messages": []
       Json(Envelope(Present(<<TextMessage(r)>>))),
       Json(Envelope(Present(<<UntypedMessage(r)>>))),
       Json(Envelope(Present(<<AudioMessage(r)>>))),
       Json(Envelope(Present(<<AudioMessage(r), TextMessage(r)>>))) >>

\* Exceptions share the layout of the verification answers.
Error(kind, text) == [kind |-> kind, status |-> 0, value |-> 0, detail |-> text]
NoError == Error("none", <<>>)

StatusSym(n) == CASE n = 400 -> "400" [] n = 403 -> "403" [] n = 500 -> "500" [] OTHER -> "0"

\* str(e): HTTPException renders as "<status_code>: <detail>", the others as
\* their message.
Str(e) == IF e.kind = "HTTPException" THEN <<StatusSym(e.status), ": ">> \o e.detail ELSE e.detail

JSONResponse(code, status, message) ==
    [status_code |-> code, status |-> status, message |-> message]
NoResponse == JSONResponse(0, <<>>, None)

\* webhook_handler's except clause
ErrorEnvelope(e) == JSONResponse(500, <<"error">>, Str(e))

\* body.get("entry", [{}])[0] ... value.get("messages", [])
ExtractMessages(body) ==
    LET entries == Get(body, "entry", <<EmptyEntry>>)
    IN  IF Len(entries) = 0
        THEN [ok |-> FALSE, messages |-> <<>>]
        ELSE LET changes == Get(entries[1], "changes", <<EmptyChange>>)
             IN  IF Len(changes) = 0
                 THEN [ok |-> FALSE, messages |-> <<>>]
                 ELSE [ok |-> TRUE,
                       messages |-> Get(Get(changes[1], "value", EmptyValue), "messages", <<>>)]

-----------------------------------------------------------------------------
(* The scratch directory and the external services *)

TempDir == <<"/tmp/">>
TmpNames == {"tmpa", "tmpb"}

\* NamedTemporaryFile(delete=False, suffix=".ogg").name
TempPath(name) == TempDir \o <<name, ".ogg">>

\* str.replace(old, new) on symbols
Replace(s, old, new) == [i \in 1..Len(s) |-> IF s[i] = old THEN new ELSE s[i]]

\* convert_audio writing every conversion to one path
OutputFile_Fixed(input_file) == TempDir \o <<"converted", ".mp3">>

\* output_file of convert_audio
OutputFile(input_file) == Replace(input_file, ".ogg", ".mp3")

Exists(fs, p) == \E f \in fs : f.path = p
Content(fs, p) == (CHOOSE f \in fs : f.path = p).content
Write(fs, p, c, r) == {f \in fs : f.path # p} \cup {[path |-> p, content |-> c, owner |-> r]}
Remove(fs, p) == {f \in fs : f.path # p}

\* The media-metadata endpoint's "url", the bytes behind it, ffmpeg's
\* output and Whisper's text, each determined by what it is given.
MediaUrl(media_id) == <<"https://lookaside/">> \o media_id
Bytes(url) == <<"ogg-bytes">> \o url
IsOgg(c) == Len(c) > 0 /\ c[1] = "ogg-bytes"
Transcode(c) == <<"mp3-bytes">> \o Tail(c)
PartialOutput == <<"mp3-partial">>
IsMp3(c) == Len(c) > 0 /\ c[1] = "mp3-bytes"
Whisper(c) == <<"words-of">> \o Tail(c)
Polish(content) == <<"polished">> \o content

\* webhook_handler sending the text as it is
ResponseMessage_Bare(processed_transcript) == processed_transcript

\* response_message of webhook_handler
ResponseMessage(processed_transcript) == <<"Transcription: ">> \o processed_transcript

Reverse(s) == [i \in 1..Len(s) |-> s[Len(s) + 1 - i]]

\* The endpoint joins the log the first time it is called.
Log(log, endpoint) ==
    IF \E i \in 1..Len(log) : log[i] = endpoint THEN log ELSE Append(log, endpoint)

NewTask ==
    [pc |-> "request_json", from_number |-> None, media_id |-> None, audio_url |-> None,
     audio_file |-> None, converted_file |-> None, transcript |-> None,
     processed_transcript |-> None, thread |-> 0,
     convert_result |-> "none", process_raised |-> FALSE,
     send_status |-> 0, send_code |-> 0, send_raised |-> NoError, send_error |-> NoError]
AbsentTask == [NewTask EXCEPT !.pc = "absent"]

\* Requests chosen to arrive start at the first await of webhook_handler.
InitHook(arriving, payloads) ==
    /\ VERIFY_TOKEN = <<"s3cret">>
    /\ query_params = [mode |-> None, token |-> None, challenge |-> None]
    /\ verify_response = [kind |-> "none", status |-> 0, value |-> 0, detail |-> <<>>]
    /\ \E choice \in [Requests -> 1..Len(Payloads("r1"))] :
           /\ \A r \in arriving : choice[r] \in payloads
           /\ \A r \in Requests \ arriving : choice[r] = 2
           /\ request = [r \in Requests |-> Payloads(r)[choice[r]]]
    /\ task = [r \in Requests |-> IF r \in arriving THEN NewTask ELSE AbsentTask]
    /\ resp = [r \in Requests |-> NoResponse]
    /\ calls = [r \in Requests |-> <<>>]
    /\ posted = [r \in Requests |-> <<>>]
    /\ running = "none"
    /\ files = {}
    /\ foreign = [r \in Requests |-> {}]
    /\ names = <<>>
    /\ threads = <<>>

InitVerify ==
    /\ VERIFY_TOKEN \in Secrets
    /\ query_params \in [mode : Modes, token : Tokens, challenge : Challenges]
    /\ verify_response = Pending
    /\ request = [r \in Requests |-> Payloads(r)[2]]
    /\ task = [r \in Requests |-> AbsentTask]
    /\ resp = [r \in Requests |-> NoResponse]
    /\ calls = [r \in Requests |-> <<>>]
    /\ posted = [r \in Requests |-> <<>>]
    /\ running = "none"
    /\ files = {}
    /\ foreign = [r \in Requests |-> {}]
    /\ names = <<>>
    /\ threads = <<>>

-----------------------------------------------------------------------------
(* POST /webhook: webhook_handler, one action per await and per            *)
(* synchronous stage.  Between two awaits a task keeps the event loop.     *)

CanRun(r) == running \in {"none", r}

\* webhook_handler returns: from a return statement or from its except clause.
Return(r, locals, response) ==
    /\ task' = [task EXCEPT ![r] = [locals EXCEPT !.pc = "done"]]
    /\ resp' = [resp EXCEPT ![r] = response]
    /\ running' = "none"

\* The task suspends at the await of `endpoint`.
Await(r, locals, label, endpoint) ==
    /\ task' = [task EXCEPT ![r] = [locals EXCEPT !.pc = label]]
    /\ calls' = [calls EXCEPT ![r] = Log(@, endpoint)]
    /\ running' = "none"

\* Files of other requests among the paths this request touches.
Touch(r, paths) ==
    foreign' = [foreign EXCEPT
                   ![r] = @ \cup {p \in paths : \E f \in files : f.path = p /\ f.owner # r}]

\* await request.json(), then the extraction up to the media lookup
RequestJson(r) ==
    /\ CanRun(r)
    /\ task[r].pc = "request_json"
    /\ LET x == ExtractMessages(request[r].json)
           message == x.messages[1]
       IN  IF ~request[r].valid
           THEN /\ Return(r, task[r], ErrorEnvelope(Error("JSONDecodeError", <<"Expecting value">>)))
                /\ UNCHANGED calls
           ELSE IF ~x.ok
           THEN /\ Return(r, task[r], ErrorEnvelope(Error("IndexError", <<"list index out of range">>)))
                /\ UNCHANGED calls
           ELSE IF Len(x.messages) = 0
           THEN /\ Return(r, task[r], JSONResponse(200, <<"No messages to process">>, None))
                /\ UNCHANGED calls
           ELSE IF Get(message, "type", None) # <<"audio">>
           THEN /\ Return(r, task[r], JSONResponse(200, <<"Not an audio message">>, None))
                /\ UNCHANGED calls
           ELSE /\ Await(r, [task[r] EXCEPT
                                !.from_number = Get(message, "from", None),
                                !.media_id = Get(Get(message, "audio", [id |-> Absent]), "id", None)],
                         "media_get", "media")
                /\ UNCHANGED resp
    /\ UNCHANGED <<verifyVars, request, posted, files, foreign, names, threads>>

\* session.get(media_url) answers
MediaGet(r) ==
    /\ CanRun(r)
    /\ task[r].pc = "media_get"
    /\ \E outcome \in {"200", "non200", "raise"} :
           CASE outcome = "raise" ->
                    /\ Return(r, task[r], ErrorEnvelope(Error("ClientError", <<"connection failed">>)))
                    /\ UNCHANGED calls
             [] outcome = "non200" ->
                    /\ Return(r, task[r], ErrorEnvelope(HTTPException(400, <<"Failed to get media URL">>)))
                    /\ UNCHANGED calls
             [] outcome = "200" ->
                    /\ Await(r, task[r], "media_json", "media")
                    /\ UNCHANGED resp
    /\ UNCHANGED <<verifyVars, request, posted, files, foreign, names, threads>>

\* response.json() of the media lookup answers; download_audio starts
MediaJson(r) ==
    /\ CanRun(r)
    /\ task[r].pc = "media_json"
    /\ \E outcome \in {"ok", "raise"} :
           IF outcome = "raise"
           THEN /\ Return(r, task[r], ErrorEnvelope(Error("ClientError", <<"bad payload">>)))
                /\ UNCHANGED calls
           ELSE /\ Await(r, [task[r] EXCEPT !.audio_url = MediaUrl(task[r].media_id)],
                         "download_get", "download")
                /\ UNCHANGED resp
    /\ UNCHANGED <<verifyVars, request, posted, files, foreign, names, threads>>

\* download_audio: session.get(url) answers; on 200 the temporary file is
\* created before the body is awaited
DownloadGet(r) ==
    /\ CanRun(r)
    /\ task[r].pc = "download_get"
    /\ \E outcome \in {"200", "non200", "raise"} :
           CASE outcome = "raise" ->
                    /\ Return(r, task[r], ErrorEnvelope(Error("ClientError", <<"connection failed">>)))
                    /\ UNCHANGED <<calls, files, names>>
             [] outcome = "non200" ->
                    /\ Return(r, task[r], ErrorEnvelope(HTTPException(400, <<"Failed to download audio">>)))
                    /\ UNCHANGED <<calls, files, names>>
             [] outcome = "200" ->
                    \E name \in TmpNames :
                        /\ ~Exists(files, TempPath(name))
                        /\ files' = Write(files, TempPath(name), <<>>, r)
                        /\ names' = Append(names, name)
                        /\ Await(r, [task[r] EXCEPT !.audio_file = TempPath(name)],
                                 "download_read", "download")
                        /\ UNCHANGED resp
    /\ UNCHANGED <<verifyVars, request, posted, foreign, threads>>

\* download_audio: response.read() answers; the bytes are written and the
\* name returned
DownloadRead(r) ==
    /\ CanRun(r)
    /\ task[r].pc = "download_read"
    /\ \E outcome \in {"ok", "raise"} :
           IF outcome = "raise"
           THEN /\ Return(r, [task[r] EXCEPT !.audio_file = None],
                          ErrorEnvelope(Error("ClientError", <<"payload incomplete">>)))
                /\ UNCHANGED files
           ELSE /\ files' = Write(files, task[r].audio_file, Bytes(task[r].audio_url), r)
                /\ task' = [task EXCEPT ![r].pc = "convert"]
                /\ running' = r
                /\ UNCHANGED resp
    /\ UNCHANGED <<verifyVars, request, calls, posted, foreign, names, threads>>

\* convert_audio without its finally clause
ConvertFinally_Keep(fs, input_file) == fs

\* The finally clause of convert_audio
ConvertFinally(fs, input_file) == IF Exists(fs, input_file) THEN Remove(fs, input_file) ELSE fs

\* convert_audio, synchronous: subprocess.run(ffmpeg ..., check=True)
convert_audio(r) ==
    /\ running = r
    /\ task[r].pc = "convert"
    /\ LET input_file == task[r].audio_file
           output_file == OutputFile(input_file)
           readable == Exists(files, input_file) /\ IsOgg(Content(files, input_file))
       IN  /\ Touch(r, {input_file, output_file})
           /\ calls' = [calls EXCEPT ![r] = Log(@, "ffmpeg")]
           /\ \E outcome \in {"exit0", "exit1", "exit1_partial", "no_ffmpeg"} :
                  CASE outcome = "exit0" ->
                           \* ffmpeg without -y does not replace an existing output
                           /\ readable
                           /\ ~Exists(files, output_file)
                           /\ files' = ConvertFinally(
                                  Write(files, output_file, Transcode(Content(files, input_file)), r),
                                  input_file)
                           /\ task' = [task EXCEPT ![r].pc = "transcribe",
                                                   ![r].converted_file = output_file,
                                                   ![r].convert_result = outcome]
                           /\ UNCHANGED <<resp, running>>
                    [] outcome = "exit1" ->
                           /\ files' = ConvertFinally(files, input_file)
                           /\ Return(r, [task[r] EXCEPT !.convert_result = "exit1"],
                                     ErrorEnvelope(HTTPException(500,
                                         <<"Audio conversion failed: ", "CalledProcessError">>)))
                    [] outcome = "exit1_partial" ->
                           \* a failed run may leave what it had written
                           /\ readable
                           /\ ~Exists(files, output_file)
                           /\ files' = ConvertFinally(Write(files, output_file, PartialOutput, r),
                                                      input_file)
                           /\ Return(r, [task[r] EXCEPT !.convert_result = "exit1"],
                                     ErrorEnvelope(HTTPException(500,
                                         <<"Audio conversion failed: ", "CalledProcessError">>)))
                    [] outcome = "no_ffmpeg" ->
                           /\ files' = ConvertFinally(files, input_file)
                           /\ Return(r, [task[r] EXCEPT !.convert_result = outcome],
                                     ErrorEnvelope(Error("FileNotFoundError",
                                         <<"No such file or directory: 'ffmpeg'">>)))
    /\ UNCHANGED <<verifyVars, request, posted, names, threads>>

\* The finally clause of transcribe_audio
TranscribeFinally(fs, file_path) == IF Exists(fs, file_path) THEN Remove(fs, file_path) ELSE fs

\* transcribe_audio, synchronous; on success process_transcript starts and
\* suspends at its first await
transcribe_audio(r) ==
    /\ running = r
    /\ task[r].pc = "transcribe"
    /\ LET file_path == task[r].converted_file
           audible == Exists(files, file_path) /\ IsMp3(Content(files, file_path))
       IN  /\ Touch(r, {file_path})
           /\ files' = TranscribeFinally(files, file_path)
           /\ \E outcome \in {"ok", "raise"} :
                  IF outcome = "ok" /\ audible
                  THEN /\ task' = [task EXCEPT
                                       ![r].pc = "threads_create",
                                       ![r].transcript = Whisper(Content(files, file_path))]
                       /\ calls' = [calls EXCEPT ![r] = Log(Log(@, "audio.transcribe"), "threads.create")]
                       /\ running' = "none"
                       /\ UNCHANGED resp
                  ELSE /\ Return(r, task[r], ErrorEnvelope(HTTPException(500,
                              <<"Transcription failed: ", "APIError">>)))
                       /\ calls' = [calls EXCEPT ![r] = Log(@, "audio.transcribe")]
    /\ UNCHANGED <<verifyVars, request, posted, names, threads>>

\* process_transcript answering an empty text from its except clause
ProcessFallback_Empty(transcript) == <<>>

\* The except clause of process_transcript: its return value
ProcessFallback(transcript) == transcript

\* process_transcript left through its except clause
Raised(locals) == [locals EXCEPT !.process_raised = TRUE]

\* webhook_handler takes what process_transcript returned and awaits
\* send_whatsapp_message, which suspends at session.post
CallSend(r, locals, processed_transcript) ==
    /\ posted' = [posted EXCEPT ![r] = Append(@,
           [to |-> locals.from_number, message |-> ResponseMessage(processed_transcript)])]
    /\ Await(r, [locals EXCEPT !.processed_transcript = processed_transcript],
             "send_post", "messages")
    /\ UNCHANGED resp

\* The id the assistant service gives a new thread
NewThreadId(ts) == Len(ts) + 1

\* openai.beta.threads.create() answers
ThreadsCreate(r) ==
    /\ CanRun(r)
    /\ task[r].pc = "threads_create"
    /\ \E outcome \in {"ok", "raise"} :
           IF outcome = "raise"
           THEN /\ CallSend(r, Raised(task[r]), ProcessFallback(task[r].transcript))
                /\ UNCHANGED threads
           ELSE /\ threads' = Append(threads, [messages |-> <<>>, run |-> "none"])
                /\ Await(r, [task[r] EXCEPT !.thread = NewThreadId(threads)],
                         "messages_create", "threads.messages.create")
                /\ UNCHANGED <<resp, posted>>
    /\ UNCHANGED <<verifyVars, request, files, foreign, names>>

\* openai.beta.threads.messages.create() answers
MessagesCreate(r) ==
    /\ CanRun(r)
    /\ task[r].pc = "messages_create"
    /\ \E outcome \in {"ok", "raise"} :
           IF outcome = "raise"
           THEN /\ CallSend(r, Raised(task[r]), ProcessFallback(task[r].transcript))
                /\ UNCHANGED threads
           ELSE /\ threads' = [threads EXCEPT ![task[r].thread].messages =
                                   Append(@, [role |-> "user", content |-> task[r].transcript])]
                /\ Await(r, task[r], "runs_create", "threads.runs.create")
                /\ UNCHANGED <<resp, posted>>
    /\ UNCHANGED <<verifyVars, request, files, foreign, names>>

\* openai.beta.threads.runs.create() answers
RunsCreate(r) ==
    /\ CanRun(r)
    /\ task[r].pc = "runs_create"
    /\ \E outcome \in {"ok", "raise"} :
           IF outcome = "raise"
           THEN /\ CallSend(r, Raised(task[r]), ProcessFallback(task[r].transcript))
                /\ UNCHANGED threads
           ELSE /\ threads' = [threads EXCEPT ![task[r].thread].run = "queued"]
                /\ Await(r, task[r], "runs_retrieve", "threads.runs.retrieve")
                /\ UNCHANGED <<resp, posted>>
    /\ UNCHANGED <<verifyVars, request, files, foreign, names>>

\* The test that leaves the polling loop
PollDone(status) == status = "completed"

\* openai.beta.threads.runs.retrieve() answers inside `while True`
RunsRetrieve(r) ==
    /\ CanRun(r)
    /\ task[r].pc = "runs_retrieve"
    /\ \E outcome \in {"ok", "raise"} :
           IF outcome = "raise"
           THEN CallSend(r, Raised(task[r]), ProcessFallback(task[r].transcript))
           ELSE /\ IF PollDone(threads[task[r].thread].run)
                   THEN Await(r, task[r], "messages_list", "threads.messages.list")
                   ELSE Await(r, task[r], "sleep", "threads.runs.retrieve")
                /\ UNCHANGED <<resp, posted>>
    /\ UNCHANGED <<verifyVars, request, files, foreign, names, threads>>

\* asyncio.sleep(1) is over
Sleep(r) ==
    /\ CanRun(r)
    /\ task[r].pc = "sleep"
    /\ Await(r, task[r], "runs_retrieve", "threads.runs.retrieve")
    /\ UNCHANGED <<verifyVars, request, resp, posted, files, foreign, names, threads>>

\* openai.beta.threads.messages.list() answers, newest message first;
\* messages.data[0].content[0].text.value
MessagesList(r) ==
    /\ CanRun(r)
    /\ task[r].pc = "messages_list"
    /\ \E outcome \in {"ok", "raise"} :
           LET data == Reverse(threads[task[r].thread].messages)
           IN  IF outcome = "raise" \/ Len(data) = 0
               THEN CallSend(r, Raised(task[r]), ProcessFallback(task[r].transcript))
               ELSE CallSend(r, task[r], data[1].content)
    /\ UNCHANGED <<verifyVars, request, files, foreign, names, threads>>

\* The assistant service works on a run: queued, in_progress, then one of
\* the terminal statuses; a completed run has appended the assistant's reply.
\* Its work is followed for as long as a handler polls the run: what it does
\* to a run nobody retrieves any more changes nothing the program reads.
TerminalStatuses == {"completed", "failed", "cancelled", "expired"}

Watched(tid) == \E r \in Requests : task[r].thread = tid /\ task[r].pc \in {"runs_retrieve", "sleep"}

RunStep(tid) ==
    /\ Watched(tid)
    /\ threads[tid].run \in {"queued", "in_progress"}
    /\ \/ /\ threads[tid].run = "queued"
          /\ threads' = [threads EXCEPT ![tid].run = "in_progress"]
       \/ /\ threads[tid].run = "in_progress"
          /\ \E s \in TerminalStatuses :
                 threads' = [threads EXCEPT
                     ![tid].run = s,
                     ![tid].messages =
                         IF s = "completed" /\ Len(@) > 0
                         THEN Append(@, [role |-> "assistant", content |-> Polish(@[Len(@)].content)])
                         ELSE @]
    /\ UNCHANGED <<verifyVars, request, task, resp, calls, posted, running, files, foreign,
                   names>>

ClientErrors == {"ClientError", "ContentTypeError"}

CodeSym(code) == CASE code = 10 -> "code 10" [] code = 0 -> "no code" [] OTHER -> "code 131030"

PermissionDetail ==
    <<"WhatsApp API permission error. Please verify your token has 'whatsapp_business_messaging' permission.">>

\* The body of the try block of send_whatsapp_message once the response is
\* read: the exception it raises, NoError when it returns.
SendTry(status, code, parsed) ==
    CASE parsed = "content_type" -> Error("ContentTypeError", <<"unexpected mimetype">>)
      [] parsed = "not_json" -> Error("JSONDecodeError", <<"Expecting value">>)
      [] OTHER ->
           IF status # 200
           THEN IF code = 10
                THEN HTTPException(400, PermissionDetail)
                ELSE HTTPException(500, <<"Failed to send WhatsApp message: ", CodeSym(code)>>)
           ELSE NoError

\* The except clauses of send_whatsapp_message: what leaves the function.
SendExcept(raised) ==
    IF raised.kind = "none" THEN NoError
    ELSE IF raised.kind \in ClientErrors
    THEN HTTPException(500, <<"Network error: ">> \o Str(raised))
    ELSE HTTPException(500, <<"Error sending WhatsApp message: ">> \o Str(raised))

SendResponses ==
    {[status |-> 200, code |-> 0], [status |-> 403, code |-> 10],
     [status |-> 400, code |-> 131030], [status |-> 500, code |-> 0]}

\* send_whatsapp_message: session.post answers
SendPost(r) ==
    /\ CanRun(r)
    /\ task[r].pc = "send_post"
    /\ \/ LET raised == Error("ClientError", <<"connection failed">>)
          IN  Return(r, [task[r] EXCEPT !.send_raised = raised, !.send_error = SendExcept(raised)],
                     ErrorEnvelope(SendExcept(raised)))
       \/ \E response \in SendResponses :
              /\ task' = [task EXCEPT ![r].pc = "send_json",
                                      ![r].send_status = response.status,
                                      ![r].send_code = response.code]
              /\ running' = "none"
              /\ UNCHANGED resp
    /\ UNCHANGED <<verifyVars, request, calls, posted, files, foreign, names, threads>>

\* send_whatsapp_message: response.json() answers; webhook_handler returns
SendJson(r) ==
    /\ CanRun(r)
    /\ task[r].pc = "send_json"
    /\ \E parsed \in {"ok", "content_type", "not_json"} :
           LET raised == SendTry(task[r].send_status, task[r].send_code, parsed)
               locals == [task[r] EXCEPT !.send_raised = raised, !.send_error = SendExcept(raised)]
           IN  IF raised.kind = "none"
               THEN Return(r, locals, JSONResponse(200, <<"success">>, None))
               ELSE Return(r, locals, ErrorEnvelope(SendExcept(raised)))
    /\ UNCHANGED <<verifyVars, request, calls, posted, files, foreign, names, threads>>

-----------------------------------------------------------------------------
(* Specifications *)

Step(r) ==
    \/ RequestJson(r)
    \/ MediaGet(r)
    \/ MediaJson(r)
    \/ DownloadGet(r)
    \/ DownloadRead(r)
    \/ convert_audio(r)
    \/ transcribe_audio(r)
    \/ ThreadsCreate(r)
    \/ MessagesCreate(r)
    \/ RunsCreate(r)
    \/ RunsRetrieve(r)
    \/ Sleep(r)
    \/ MessagesList(r)
    \/ SendPost(r)
    \/ SendJson(r)

Service == \E tid \in 1..Len(threads) : RunStep(tid)

Next == (\E r \in Requests : Step(r)) \/ Service

\* One POST /webhook request.
Init == InitHook({"r1"}, 1..Len(Payloads("r1")))
Spec == Init /\ [][Next]_vars

\* The same, every await eventually answered and the assistant service
\* eventually settling every run.
SpecLive == Spec /\ WF_vars(\E r \in Requests : Step(r)) /\ WF_vars(Service)

\* Two POST /webhook requests interleaved at their awaits, each carrying a
\* text message or an audio message.
InitConc == InitHook(Requests, {10, 12})
SpecConc == InitConc /\ [][Next]_vars

\* One GET /webhook request.
SpecVerify == InitVerify /\ [][VerifyWebhook]_vars

-----------------------------------------------------------------------------
(* Properties *)

Done(r) == task[r].pc = "done"
Success == JSONResponse(200, <<"success">>, None)

\* What Whisper hears in the audio request r points at.
OwnTranscript(r) == Whisper(Transcode(Bytes(MediaUrl(MediaId(r)))))

\* process_transcript returned the assistant's reply, not its fallback.
PostProcessed(r) ==
    /\ ~task[r].process_raised
    /\ task[r].processed_transcript # None

FullChain ==
    <<"media", "download", "ffmpeg", "audio.transcribe", "threads.create",
      "threads.messages.create", "threads.runs.create", "threads.runs.retrieve",
      "threads.messages.list", "messages">>

\* C1 as stated: when every stage succeeds the handler answers success and
\* send_whatsapp_message is called once, last, with the post-processed text
\* as its message.
C1_SendGetsProcessedText ==
    \A r \in Requests :
        (Done(r) /\ resp[r] = Success /\ PostProcessed(r)) =>
            /\ Len(posted[r]) = 1
            /\ posted[r][1].message = task[r].processed_transcript

\* C1 amended: when every stage succeeds the handler answers success and
\* send_whatsapp_message is called exactly once, after every other stage,
\* for the sender, with "Transcription: " followed by the post-processed
\* text; and a pipeline whose send stage returned answers success.
C1_SendOnceWithPrefixedText ==
    \A r \in Requests :
        /\ (Done(r) /\ resp[r] = Success /\ PostProcessed(r)) =>
               /\ calls[r] = FullChain
               /\ task[r].processed_transcript = Polish(OwnTranscript(r))
               /\ posted[r] = <<[to |-> FromNumber(r),
                                 message |-> <<"Transcription: ">> \o Polish(OwnTranscript(r))]>>
        /\ (Done(r) /\ Len(posted[r]) > 0 /\ task[r].send_status = 200
                /\ task[r].send_raised = NoError) => resp[r] = Success
        /\ resp[r] = Success => Len(posted[r]) = 1

C1_Witness ==
    Done("r1") /\ resp["r1"] = Success /\ PostProcessed("r1") /\ calls["r1"] = FullChain

\* C2 as stated: when a step of process_transcript raises, the text passed
\* to the send stage equals the raw transcript.
C2_SendGetsRawTranscript ==
    \A r \in Requests :
        task[r].process_raised =>
            /\ Len(posted[r]) = 1
            /\ posted[r][1].message = task[r].transcript

\* C2 amended: when a step of process_transcript raises, process_transcript
\* returns the unmodified transcript, the handler goes on to the send stage
\* with "Transcription: " followed by the raw transcript, and the handler's
\* answer is an error only if the send stage raised one.
C2_FallbackLaw ==
    \A r \in Requests :
        task[r].process_raised =>
            /\ task[r].transcript = OwnTranscript(r)
            /\ task[r].processed_transcript = task[r].transcript
            /\ posted[r] = <<[to |-> FromNumber(r),
                              message |-> <<"Transcription: ">> \o OwnTranscript(r)]>>
            /\ task[r].pc \in {"send_post", "send_json", "done"}
            /\ Done(r) =>
                   IF task[r].send_error = NoError
                   THEN resp[r] = Success
                   ELSE resp[r] = ErrorEnvelope(task[r].send_error)

C2_Witness ==
    /\ Done("r1")
    /\ task["r1"].process_raised
    /\ resp["r1"] = Success
    /\ calls["r1"] = FullChain

\* The message list of a notification body is absent or empty: one of
\* entry, changes, value or messages is missing or empty.
NoMessageList(body) ==
    \/ Len(body.entry) = 0
    \/ Len(body.entry[1]) = 0
    \/ Len(body.entry[1][1].changes) = 0
    \/ Len(body.entry[1][1].changes[1]) = 0
    \/ Len(body.entry[1][1].changes[1][1].value) = 0
    \/ Len(body.entry[1][1].changes[1][1].value[1].messages) = 0
    \/ Len(body.entry[1][1].changes[1][1].value[1].messages[1]) = 0

\* C3: a notification body whose message list is empty or absent, entry,
\* changes or value missing or empty included, is answered 200 "No messages
\* to process" and no outbound call is made.
C3_NoMessagesNoCalls ==
    \A r \in Requests :
        (Done(r) /\ request[r].valid /\ NoMessageList(request[r].json)) =>
            /\ resp[r] = JSONResponse(200, <<"No messages to process">>, None)
            /\ calls[r] = <<>>
            /\ posted[r] = <<>>

Verified == verify_response.kind \notin {"pending", "none"}

\* C4 as stated, for a token that was sent and a secret that is configured:
\* a verify token different from the configured secret is answered 403,
\* whatever mode and challenge are.
C4_MismatchIs403 ==
    (Verified /\ Truthy(VERIFY_TOKEN) /\ Truthy(query_params.token)
         /\ query_params.token # VERIFY_TOKEN) => verify_response.status = 403

\* C4 amended: when mode and verify token are both present and non-empty
\* and the token differs from the configured secret, the answer is the 403
\* authorization error, whatever challenge is; when mode or token is absent
\* or empty the answer is the 400 bad-request error.
C4_MismatchIs403WhenPresent ==
    (Verified /\ query_params.token # VERIFY_TOKEN) =>
        IF Truthy(query_params.mode) /\ Truthy(query_params.token)
        THEN verify_response = HTTPException(403, <<"Invalid verify token">>)
        ELSE verify_response = HTTPException(400, <<"Invalid request">>)

C4_Witness ==
    /\ Verified
    /\ query_params.mode = <<"subscribe">>
    /\ query_params.token = <<"guess">>
    /\ VERIFY_TOKEN = <<"s3cret">>
    /\ query_params.challenge = None
    /\ verify_response.status = 403

IsPlainDecimal(s) == s # None /\ Len(s) > 0 /\ \A i \in 1..Len(s) : s[i] \in Digits

RECURSIVE PositionalValue(_)
PositionalValue(s) ==
    IF Len(s) = 0 THEN 0
    ELSE 10 * PositionalValue(SubSeq(s, 1, Len(s) - 1)) + DigitValue(s[Len(s)])

Matching ==
    /\ query_params.mode = <<"subscribe">>
    /\ query_params.token = VERIFY_TOKEN

C6_NoTempFileLeft ==
    \A r \in Requests : Done(r) => ~\E f \in files : f.owner = r

\* C7: when the transcoder exits non-zero the pipeline stops there
\* (transcribe, post-process and send are never called), the handler answers
\* 500, and the downloaded file no longer exists.
C7_TranscoderFailureAborts ==
    \A r \in Requests :
        task[r].convert_result = "exit1" =>
            /\ Done(r)
            /\ resp[r].status_code = 500
            /\ resp[r].status = <<"error">>
            /\ calls[r] = <<"media", "download", "ffmpeg">>
            /\ posted[r] = <<>>
            /\ task[r].transcript = None
            /\ task[r].thread = 0
            /\ task[r].audio_file # None
            /\ ~Exists(files, task[r].audio_file)

C7_Witness ==
    /\ task["r1"].convert_result = "exit1"
    /\ Done("r1")
    /\ task["r1"].audio_file = TempPath("tmpa")
    /\ ~Exists(files, task["r1"].audio_file)

Mentions(e, text) == \E i \in 1..Len(e.detail) : e.detail[i] = text

\* C8: the error that leaves send_whatsapp_message for a non-200 response
\* with vendor code 10 is the permission error with status 400, for another
\* non-200 response the send failure with status 500, for a transport
\* failure the network error with status 500.
C8_SendErrorsKeepKindAndStatus ==
    \A r \in Requests :
        /\ task[r].send_raised = HTTPException(400, PermissionDetail) =>
               /\ task[r].send_error.status = 400
               /\ Mentions(task[r].send_error, PermissionDetail[1])
        /\ (task[r].send_raised.kind = "HTTPException" /\ task[r].send_raised.status = 500) =>
               /\ task[r].send_error.status = 500
               /\ Mentions(task[r].send_error, "Failed to send WhatsApp message: ")
        /\ task[r].send_raised.kind \in ClientErrors =>
               /\ task[r].send_error.status = 500
               /\ Mentions(task[r].send_error, "Network error: ")

\* C9: every request that starts the pipeline is eventually answered,
\* whatever statuses the assistant service reports for its run.
C9_EveryRequestAnswered == <>Done("r1")

AllDistinct(s) == \A i, j \in 1..Len(s) : i # j => s[i] # s[j]

OwnTexts(r) == {OwnTranscript(r), Polish(OwnTranscript(r))}

\* C10: two interleaved requests, the temp-file facility handing out a
\* distinct name per download: a request touches no file another request
\* created, the two use different threads holding only their own messages,
\* and each sends at most one message, built from its own transcript, to its
\* own sender.
C10_RequestsIndependent ==
    AllDistinct(names) =>
        \A r \in Requests :
            /\ foreign[r] = {}
            /\ task[r].pc \in {"download_read", "convert"} =>
                   \E f \in files : f.path = task[r].audio_file /\ f.owner = r
            /\ task[r].pc = "transcribe" =>
                   \E f \in files : f.path = task[r].converted_file /\ f.owner = r
            /\ \A o \in Requests \ {r} :
                   task[r].thread # 0 => task[r].thread # task[o].thread
            /\ task[r].thread # 0 =>
                   \A i \in 1..Len(threads[task[r].thread].messages) :
                       threads[task[r].thread].messages[i].content \in OwnTexts(r)
            /\ Len(posted[r]) <= 1
            /\ \A i \in 1..Len(posted[r]) :
                   /\ posted[r][i].to = FromNumber(r)
                   /\ posted[r][i].message \in {ResponseMessage(t) : t \in OwnTexts(r)}
            /\ resp[r] = Success => Len(posted[r]) = 1

C10_Witness ==
    /\ AllDistinct(names)
    /\ Len(names) = 2
    /\ \A r \in Requests : Done(r) /\ resp[r] = Success /\ PostProcessed(r)
    /\ task["r1"].thread = 2
    /\ task["r2"].thread = 1
====
